---- MODULE Spec2Model ----
(***************************************************************************)
(* State-machine model of the recrawl pipeline of labs-referral-pilot:     *)
(*   - the crawl-job batch (src/app/src/ingestion/process_crawl_jobs.py):  *)
(*     due selection, parallel dispatch with asyncio.gather, the merge of  *)
(*     each job's entries into support_listing / support, all inside the   *)
(*     one transaction that main() opens;                                  *)
(*   - the validate/retry loop of the generate_referrals_rag Haystack      *)
(*     pipeline (prompt_builder -> llm -> output_validator -> ...).        *)
(* Time is counted in clock ticks, TicksPerHour ticks to the hour.         *)
(***************************************************************************)
EXTENDS Integers, Sequences, FiniteSets, TLC

\* ------------------------------------------------------------------ bounds
MaxTime == 5
TicksPerHour == 2
MaxInterval == 2
MaxBatches == 2
MaxEntries == 2
MaxRuns == 2
MaxOps == 2

\* ------------------------------------------------------- values of the model
None == "None"
\* last_crawled_at of a job that was never crawled (NULL in the column).
Never == -1
Domains == {"a.org", "b.org"}
PromptNames == {"crawl_gcta"}
Names == {"A", "B"}
Addrs == {"x", "y"}
ManualListingName == "Basic Needs Resources"
\* The value of "addresses" in a decoded object that has no such key (and
\* none of the other keys but "name").
Omitted == "omitted"

JobIds == 1 .. Cardinality(Domains)
ListingIds == 1 .. (Cardinality(Domains) + 1)
SupportIds == 1 .. (Cardinality(Domains) * MaxEntries + 1)

\* A decoded object of the Generator's JSON array: name is None when the
\* object has no "name" key.
RawEntries == [name : Names \cup {None}, addr : Addrs]

RECURSIVE SeqsUpTo(_, _)
SeqsUpTo(S, n) ==
    IF n = 0 THEN {<< >>}
    ELSE LET shorter == SeqsUpTo(S, n - 1)
         IN  shorter \cup {Append(s, e) : s \in {t \in shorter : Len(t) = n - 1}, e \in S}

\* What one call of the Generator can end in: an API error, text that is not
\* JSON, or a JSON array of objects.
ReplyOf(kind, entries) == [kind |-> kind, entries |-> entries]
AllReplies ==
    {ReplyOf("error", << >>), ReplyOf("badjson", << >>)}
        \cup {ReplyOf("list", s) : s \in SeqsUpTo(RawEntries, MaxEntries)}
BatchReplies ==
    {ReplyOf("error", << >>), ReplyOf("badjson", << >>),
     ReplyOf("list", << [name |-> "A", addr |-> "x"] >>),
     ReplyOf("list", << [name |-> "B", addr |-> "x"] >>),
     ReplyOf("list", << [name |-> "A", addr |-> "x"], [name |-> "A", addr |-> "y"] >>),
     ReplyOf("list", << [name |-> "A", addr |-> "x"], [name |-> None, addr |-> "y"] >>)}
NoReply == ReplyOf("none", << >>)

Range(s) == {s[i] : i \in 1 .. Len(s)}
NewId(pool, used) == CHOOSE i \in pool \ used : \A j \in pool \ used : i <= j

\* ------------------------------------------------------------ the database
\* crawl_job rows: [id, domain, prompt_name, crawling_interval, last_crawled_at]
\* support_listing rows: [id, name, uri]
\* support rows: [id, support_listing_id, name, addresses]
ListingName(domain) == "Crawl Job: " \o domain

JobRow(tbl, domain) == CHOOSE j \in tbl : j.domain = domain
ListingsNamed(store, name) == {l \in store.support_listing : l.name = name}
SupportsOf(store, lid) == {s \in store.support : s.support_listing_id = lid}

\* The contents of the Records of the Listing(s) with this name, row ids aside.
RecordsOf(store, name) ==
    {[name |-> s.name, addr |-> s.addresses] :
        s \in {t \in store.support :
                 \E l \in ListingsNamed(store, name) : t.support_listing_id = l.id}}
RecordRows(store, name) ==
    {t \in store.support : \E l \in ListingsNamed(store, name) : t.support_listing_id = l.id}

\* ------------------------------------------------------ Recrawl Scheduler
\* The comparison with > in place of >=.
ShouldProcessStrict(job, t) ==
    IF job.last_crawled_at = Never THEN TRUE
    ELSE (t - job.last_crawled_at) > job.crawling_interval * TicksPerHour

\* The comparison made on the hours elapsed, rounded up to whole hours.
ShouldProcessRoundedUp(job, t) ==
    IF job.last_crawled_at = Never THEN TRUE
    ELSE ((t - job.last_crawled_at) + TicksPerHour - 1) \div TicksPerHour >= job.crawling_interval

\* process_crawl_jobs.py 44-70: hours_since_last_crawl >= crawling_interval,
\* with hours_since_last_crawl = elapsed / TicksPerHour as a fraction.
ShouldProcess(job, t) ==
    IF job.last_crawled_at = Never THEN TRUE
    ELSE (t - job.last_crawled_at) >= job.crawling_interval * TicksPerHour

RECURSIVE FilterDue(_, _)
FilterDue(rows, t) ==
    IF rows = << >> THEN << >>
    ELSE (IF ShouldProcess(Head(rows), t) THEN << Head(rows).domain >> ELSE << >>)
            \o FilterDue(Tail(rows), t)

\* The jobs to process, as the sequence of their domains, in the order the
\* query returned the rows.
get_jobs_to_process(rows, t) == FilterDue(rows, t)

\* All orders in which query(CrawlJob).all() can return the rows of a table.
RowOrders(tbl) ==
    {s \in [1 .. Cardinality(tbl) -> tbl] : \A i, j \in 1 .. Cardinality(tbl) : i # j => s[i] # s[j]}

\* ------------------------------------------------- process_single_job, dedup
\* A known key keeps its first value.
DictPutFirstWins(dict, e) ==
    IF \E i \in 1 .. Len(dict) : dict[i].name = e.name THEN dict ELSE Append(dict, e)

\* dict[e.name] = e: a new key goes last, a known key keeps its place and
\* takes the new value.
DictPut(dict, e) ==
    IF \E i \in 1 .. Len(dict) : dict[i].name = e.name
    THEN [i \in 1 .. Len(dict) |-> IF dict[i].name = e.name THEN e ELSE dict[i]]
    ELSE Append(dict, e)

RECURSIVE DictOf(_, _)
DictOf(list, acc) ==
    IF list = << >> THEN acc ELSE DictOf(Tail(list), DictPut(acc, Head(list)))

\* process_crawl_jobs.py 160: {entry["name"]: SupportEntry(**entry) for entry in list},
\* read back with .values().
DedupByName(list) == DictOf(list, << >>)

\* Whether process_single_job returns for this reply (else it raises):
\* entry["name"] raises KeyError for an object without name, and
\* SupportEntry(**entry) raises ValidationError for an object without one of
\* the fields of SupportEntry (process_crawl_jobs.py 21-27), none of which
\* has a default.
ReplyIsValid(r) ==
    /\ r.kind = "list"
    /\ \A i \in 1 .. Len(r.entries) : r.entries[i].name # None
    /\ \A i \in 1 .. Len(r.entries) : r.entries[i].addr # Omitted


\* ------------------------------------- manage_crawl_job, delete_support*
\* What a command returned: True, False, the job (upsert) or the exception.
CrawlJobIds == 1 .. (Cardinality(Domains) + 1)
JobsOf(store, domain) == {j \in store.crawl_job : j.domain = domain}

\* The Listing deleted without its Support rows.
delete_support_listing_keeps_supports(store, listing_name) ==
    LET found == ListingsNamed(store, listing_name)
    IN  IF found = {}
        THEN [ret |-> "False", store |-> store]
        ELSE [ret |-> "True", store |-> [store EXCEPT !.support_listing = @ \ found]]

\* delete_support_listing.py 15-49: find the Listing by name; delete it, and
\* with it (cascade) its Support rows.
delete_support_listing_by_name(store, listing_name) ==
    LET found == ListingsNamed(store, listing_name)
    IN  IF found = {}
        THEN [ret |-> "False", store |-> store]
        ELSE [ret |-> "True",
              store |-> [store EXCEPT
                  !.support_listing = @ \ found,
                  !.support = {s \in @ : \A l \in found : s.support_listing_id # l.id}]]

\* delete_support.py 15-67: find the Support by name (one_or_none raises when
\* several rows have the name); delete it, and its Listing when no Support of
\* the Listing remains.
delete_support_by_name(store, support_name) ==
    LET found == {s \in store.support : s.name = support_name}
    IN  IF found = {} THEN [ret |-> "False", store |-> store]
        ELSE IF Cardinality(found) > 1 THEN [ret |-> "MultipleResultsFound", store |-> store]
        ELSE LET support == CHOOSE s \in found : TRUE
                 remaining == SupportsOf(store, support.support_listing_id) \ {support}
             IN  [ret |-> "True",
                  store |-> [store EXCEPT
                      !.support = @ \ {support},
                      !.support_listing =
                          IF remaining = {}
                          THEN {l \in @ : l.id # support.support_listing_id}
                          ELSE @]]

\* upsert_crawl_job without the check of crawling_interval.
upsert_crawl_job_unchecked(store, prompt_name, domain, crawling_interval) ==
    LET existing == JobsOf(store, domain)
    IN  IF existing # {}
        THEN [ret |-> "job",
              store |-> [store EXCEPT !.crawl_job =
                  (@ \ existing) \cup
                  {[j EXCEPT !.prompt_name = prompt_name,
                             !.crawling_interval = crawling_interval] : j \in existing}]]
        ELSE [ret |-> "job",
              store |-> [store EXCEPT !.crawl_job = @ \cup
                  {[id |-> NewId(CrawlJobIds, {j.id : j \in store.crawl_job}),
                    domain |-> domain, prompt_name |-> prompt_name,
                    crawling_interval |-> crawling_interval, last_crawled_at |-> Never]}]]

\* upsert_crawl_job that adds a row without looking for an existing one.
upsert_crawl_job_always_adds(store, prompt_name, domain, crawling_interval) ==
    IF crawling_interval <= 0
    THEN [ret |-> "ValueError", store |-> store]
    ELSE [ret |-> "job",
          store |-> [store EXCEPT !.crawl_job = @ \cup
              {[id |-> NewId(CrawlJobIds, {j.id : j \in store.crawl_job}),
                domain |-> domain, prompt_name |-> prompt_name,
                crawling_interval |-> crawling_interval, last_crawled_at |-> Never]}]]

\* upsert_crawl_job that leaves the prompt_name of an existing job alone when
\* none is given.
upsert_crawl_job_keeps_prompt(store, prompt_name, domain, crawling_interval) ==
    IF crawling_interval <= 0
    THEN [ret |-> "ValueError", store |-> store]
    ELSE LET existing == JobsOf(store, domain)
         IN  IF existing # {}
             THEN [ret |-> "job",
                   store |-> [store EXCEPT !.crawl_job =
                       (@ \ existing) \cup
                       {[j EXCEPT !.prompt_name = IF prompt_name = None THEN @ ELSE prompt_name,
                                  !.crawling_interval = crawling_interval] : j \in existing}]]
             ELSE [ret |-> "job",
                   store |-> [store EXCEPT !.crawl_job = @ \cup
                       {[id |-> NewId(CrawlJobIds, {j.id : j \in store.crawl_job}),
                         domain |-> domain, prompt_name |-> prompt_name,
                         crawling_interval |-> crawling_interval, last_crawled_at |-> Never]}]]

\* upsert_crawl_job that clears last_crawled_at of the job it updates.
upsert_crawl_job_resets_history(store, prompt_name, domain, crawling_interval) ==
    IF crawling_interval <= 0
    THEN [ret |-> "ValueError", store |-> store]
    ELSE LET existing == JobsOf(store, domain)
         IN  IF existing # {}
             THEN [ret |-> "job",
                   store |-> [store EXCEPT !.crawl_job =
                       (@ \ existing) \cup
                       {[j EXCEPT !.prompt_name = prompt_name,
                                  !.crawling_interval = crawling_interval,
                                  !.last_crawled_at = Never] : j \in existing}]]
             ELSE [ret |-> "job",
                   store |-> [store EXCEPT !.crawl_job = @ \cup
                       {[id |-> NewId(CrawlJobIds, {j.id : j \in store.crawl_job}),
                         domain |-> domain, prompt_name |-> prompt_name,
                         crawling_interval |-> crawling_interval, last_crawled_at |-> Never]}]]

\* manage_crawl_job.py 16-67: ValueError for an interval that is not
\* positive; else update the job of the domain in place, or create one.
upsert_crawl_job(store, prompt_name, domain, crawling_interval) ==
    IF crawling_interval <= 0
    THEN [ret |-> "ValueError", store |-> store]
    ELSE LET existing == JobsOf(store, domain)
         IN  IF existing # {}
             THEN [ret |-> "job",
                   store |-> [store EXCEPT !.crawl_job =
                       (@ \ existing) \cup
                       {[j EXCEPT !.prompt_name = prompt_name,
                                  !.crawling_interval = crawling_interval] : j \in existing}]]
             ELSE [ret |-> "job",
                   store |-> [store EXCEPT !.crawl_job = @ \cup
                       {[id |-> NewId(CrawlJobIds, {j.id : j \in store.crawl_job}),
                         domain |-> domain, prompt_name |-> prompt_name,
                         crawling_interval |-> crawling_interval, last_crawled_at |-> Never]}]]

\* delete_crawl_job that deletes the Listings whose uri is the domain.
delete_crawl_job_by_uri(store, domain) ==
    LET existing == JobsOf(store, domain)
        found == {l \in store.support_listing : l.uri = domain}
    IN  IF existing = {}
        THEN [ret |-> "False", store |-> store]
        ELSE [ret |-> "True",
              store |-> [store EXCEPT
                  !.crawl_job = @ \ existing,
                  !.support_listing = @ \ found,
                  !.support = {s \in @ : \A l \in found : s.support_listing_id # l.id}]]

\* manage_crawl_job.py 70-106: when the job exists, delete the Listing named
\* "Crawl Job: " + domain if there is one, then the job.
delete_crawl_job(store, domain) ==
    LET existing == JobsOf(store, domain)
    IN  IF existing = {}
        THEN [ret |-> "False", store |-> store]
        ELSE LET afterListing ==
                    IF ListingsNamed(store, ListingName(domain)) # {}
                    THEN delete_support_listing_by_name(store, ListingName(domain)).store
                    ELSE store
             IN  [ret |-> "True",
                  store |-> [afterListing EXCEPT !.crawl_job = @ \ existing]]

\* --------------------------------- generate_referrals_rag: validate and retry
\* Pipeline(max_runs_per_component=3), pipeline_wrapper.py 87.
max_runs_per_component == 3

\* What the llm component can reply: text that validates against
\* ResourceList, text that is not JSON, JSON of another shape, or a reply
\* without text.
ValidText == "{resources: [...]}"
NoText == "None"
Texts == {ValidText, "not json", "{}", NoText}
TextIsValid(t) == t = ValidText

\* str(e) of the exception json.loads or model_validate raised for the text.
ErrorMessage(t) == "error in: " \o t

\* The validator returning the error message without the invalid replies.
LlmOutputValidatorRunNoReplies(text) ==
    IF text = NoText
    THEN [raised |-> TRUE, valid_replies |-> None, invalid_replies |-> None, error_message |-> None]
    ELSE IF TextIsValid(text)
    THEN [raised |-> FALSE, valid_replies |-> text, invalid_replies |-> None, error_message |-> None]
    ELSE [raised |-> FALSE, valid_replies |-> None, invalid_replies |-> None,
          error_message |-> ErrorMessage(text)]

\* LlmOutputValidator.run, components.py 571-590: the outputs it returns; the
\* AssertionError for a reply without text is not among the exceptions it
\* catches.
LlmOutputValidatorRun(text) ==
    IF text = NoText
    THEN [raised |-> TRUE, valid_replies |-> None, invalid_replies |-> None, error_message |-> None]
    ELSE IF TextIsValid(text)
    THEN [raised |-> FALSE, valid_replies |-> text, invalid_replies |-> None, error_message |-> None]
    ELSE [raised |-> FALSE, valid_replies |-> None, invalid_replies |-> text,
          error_message |-> ErrorMessage(text)]

NoFeedback == [invalid_replies |-> None, error_message |-> None]

VARIABLES
    now,        \* the clock, in ticks
    db,         \* the committed database
    sess,       \* the database as the open session sees it
    pool,       \* the replies the Generator can give
    pc,         \* where the batch run is
    due,        \* jobs_to_process: the domains of the due jobs, in order
    task,       \* per domain, the state of its process_single_job task
    reply,      \* per domain, what the Generator answered
    calls,      \* per domain, the number of Generator calls made
    result,     \* per domain, the support entries the task returned
    doneOrder,  \* the domains in the order their tasks ended
    results,    \* what process_jobs_in_parallel returned
    mi,         \* index in results of the job being saved
    mstep,      \* the step save_job_results is at
    mk,         \* index of the next entry to add
    lid,        \* support_listing_id of the merge under way
    merged,     \* domains whose save_job_results has returned in this run
    outcome,    \* how the last batch run ended
    failedAt,   \* index of the job whose merge hit the persistence error
    prevDb,     \* the committed database when the last batch run began
    batches,    \* batch runs begun
    ppc,        \* the component of the pipeline to run next, or how the run ended
    visits,     \* component_visits of the pipeline run
    feedback,   \* error_message and invalid_replies sent to prompt_builder
    prompt,     \* the messages prompt_builder built last
    prompts,    \* the prompts the llm component was run with, in order
    replies,    \* the replies of the llm component, in order
    saved,      \* the valid replies handed to save_result
    failure,    \* why the pipeline run failed
    runs,       \* pipeline runs begun
    adm,        \* the last command run on the store, and the store before it
    tx,         \* per concurrent run of main(), the state of its transaction
    inv         \* per concurrent caller of the shared pipeline, its pipeline.run()

batchVars == << now, db, sess, pool, pc, due, task, reply, calls, result, doneOrder,
                results, mi, mstep, mk, lid, merged, outcome, failedAt, prevDb, batches >>

pipeVars == << ppc, visits, feedback, prompt, prompts, replies, saved, failure, runs >>

adminVars == << adm >>

raceVars == << tx >>

concVars == << inv >>

vars == << batchVars, pipeVars, adminVars, raceVars, concVars >>


\* ---------------------------------------------------------------- Init
DomainId == CHOOSE f \in [Domains -> JobIds] : \A d, e \in Domains : d # e => f[d] # f[e]

JobTables ==
    {{[id |-> DomainId[d], domain |-> d, prompt_name |-> p[d],
       crawling_interval |-> iv[d], last_crawled_at |-> lc[d]] : d \in Domains} :
        p \in [Domains -> PromptNames \cup {None}],
        iv \in [Domains -> 1 .. MaxInterval],
        lc \in [Domains -> {Never, 0}]}

\* A manually ingested Listing, and the Listing of an earlier crawl of a.org.
InitListings ==
    {[id |-> 1, name |-> ManualListingName, uri |-> "guide.pdf"],
     [id |-> 2, name |-> ListingName("a.org"), uri |-> "old-uri"]}
InitSupports ==
    {[id |-> 1, support_listing_id |-> 1, name |-> "A", addresses |-> "x"],
     [id |-> 2, support_listing_id |-> 2, name |-> "B", addresses |-> "y"]}

Components == {"prompt_builder", "llm", "output_validator"}

\* The callers of the pipeline that can be inside pipeline.run() at once.
Invocations == {1, 2}
NoInvocation ==
    [pc |-> "idle", visits |-> [c \in Components |-> 0], calls |-> 0, last |-> None,
     failure |-> "none", n |-> 0, prev |-> "none"]

PipeIdle ==
    /\ inv = [i \in Invocations |-> NoInvocation]
    /\ ppc = "idle"
    /\ visits = [c \in Components |-> 0]
    /\ feedback = NoFeedback
    /\ prompt = NoFeedback
    /\ prompts = << >>
    /\ replies = << >>
    /\ saved = None
    /\ failure = "none"
    /\ runs = 0

NoCommand == [n |-> 0, op |-> "none", arg |-> None, prompt |-> None, interval |-> 0, ret |-> None]

Runs == {1, 2}
NoTx == [pc |-> "idle", entries |-> << >>, lid |-> 0, loadedUri |-> None, newListing |-> FALSE,
         updUri |-> FALSE, snap |-> {}, del |-> {}]

IdleBatch ==
    /\ adm = [cmd |-> NoCommand, before |-> db, after |-> db]
    /\ pc = "idle"
    /\ due = << >>
    /\ task = [d \in Domains |-> "none"]
    /\ reply = [d \in Domains |-> NoReply]
    /\ calls = [d \in Domains |-> 0]
    /\ result = [d \in Domains |-> << >>]
    /\ doneOrder = << >>
    /\ results = << >>
    /\ mi = 0
    /\ mstep = "none"
    /\ mk = 0
    /\ lid = 0
    /\ merged = {}
    /\ outcome = "none"
    /\ failedAt = 0
    /\ batches = 0

IdleLocals ==
    /\ tx = [t \in Runs |-> NoTx]
    /\ IdleBatch

Init ==
    /\ now = 0
    /\ \E jobs \in JobTables :
          db = [crawl_job |-> jobs, support_listing |-> InitListings, support |-> InitSupports]
    /\ sess = db
    /\ prevDb = db
    /\ pool = BatchReplies
    /\ IdleLocals
    /\ PipeIdle

\* ------------------------------------------------------------ the clock
Tick ==
    /\ pc \in {"idle", "dispatch"}
    /\ now < MaxTime
    /\ now' = now + 1
    /\ UNCHANGED << db, sess, pool, pc, due, task, reply, calls, result, doneOrder, results,
                    mi, mstep, mk, lid, merged, outcome, failedAt, prevDb, batches >>
    /\ UNCHANGED pipeVars
    /\ UNCHANGED adminVars
    /\ UNCHANGED raceVars
    /\ UNCHANGED concVars

\* ------------------------------------------------- main, process_all_jobs
\* process_all_jobs going on to the dispatch when no job is due.
BeginBatchNoEarlyReturn ==
    /\ pc = "idle"
    /\ batches < MaxBatches
    /\ batches' = batches + 1
    /\ prevDb' = db
    /\ sess' = db
    /\ \E rows \in RowOrders(db.crawl_job) :
          due' = get_jobs_to_process(rows, now)
    /\ pc' = "selected"
    /\ task' = [d \in Domains |-> "none"]
    /\ reply' = [d \in Domains |-> NoReply]
    /\ calls' = [d \in Domains |-> 0]
    /\ result' = [d \in Domains |-> << >>]
    /\ doneOrder' = << >>
    /\ results' = << >>
    /\ mi' = 0
    /\ mstep' = "none"
    /\ mk' = 0
    /\ lid' = 0
    /\ merged' = {}
    /\ outcome' = "none"
    /\ failedAt' = 0
    /\ UNCHANGED << now, db, pool >>
    /\ UNCHANGED pipeVars
    /\ UNCHANGED adminVars
    /\ UNCHANGED raceVars
    /\ UNCHANGED concVars

\* main() opens the session and its transaction; process_all_jobs selects the
\* due jobs and returns at once when there are none.
BeginBatch ==
    /\ pc = "idle"
    /\ batches < MaxBatches
    /\ batches' = batches + 1
    /\ prevDb' = db
    /\ sess' = db
    /\ \E rows \in RowOrders(db.crawl_job) :
          due' = get_jobs_to_process(rows, now)
    /\ pc' = IF due' = << >> THEN "commit" ELSE "selected"
    /\ task' = [d \in Domains |-> "none"]
    /\ reply' = [d \in Domains |-> NoReply]
    /\ calls' = [d \in Domains |-> 0]
    /\ result' = [d \in Domains |-> << >>]
    /\ doneOrder' = << >>
    /\ results' = << >>
    /\ mi' = 0
    /\ mstep' = "none"
    /\ mk' = 0
    /\ lid' = 0
    /\ merged' = {}
    /\ outcome' = "none"
    /\ failedAt' = 0
    /\ UNCHANGED << now, db, pool >>
    /\ UNCHANGED pipeVars
    /\ UNCHANGED adminVars
    /\ UNCHANGED raceVars
    /\ UNCHANGED concVars

\* process_all_jobs 268: the name client is bound neither in the function nor
\* in the module; evaluating it raises NameError unless the embedding program
\* has bound it in the module's namespace.
ClientUnbound ==
    /\ pc = "selected"
    /\ pc' = "raised"
    /\ UNCHANGED << now, db, sess, pool, due, task, reply, calls, result, doneOrder, results,
                    mi, mstep, mk, lid, merged, outcome, failedAt, prevDb, batches >>
    /\ UNCHANGED pipeVars
    /\ UNCHANGED adminVars
    /\ UNCHANGED raceVars
    /\ UNCHANGED concVars

\* process_jobs_in_parallel 183: one coroutine per job, handed to gather.
Dispatch ==
    /\ pc = "selected"
    /\ pc' = "dispatch"
    /\ task' = [d \in Domains |-> IF d \in Range(due) THEN "pending" ELSE "none"]
    /\ UNCHANGED << now, db, sess, pool, due, reply, calls, result, doneOrder, results,
                    mi, mstep, mk, lid, merged, outcome, failedAt, prevDb, batches >>
    /\ UNCHANGED pipeVars
    /\ UNCHANGED adminVars
    /\ UNCHANGED raceVars
    /\ UNCHANGED concVars

\* The Generator called whether or not the job has a prompt_name.
TaskStartIgnoresPrompt(d) ==
    /\ pc = "dispatch"
    /\ task[d] = "pending"
    /\ task' = [task EXCEPT ![d] = "waiting"]
    /\ calls' = [calls EXCEPT ![d] = @ + 1]
    /\ UNCHANGED << now, db, sess, pool, pc, due, reply, result, results, doneOrder,
                    mi, mstep, mk, lid, merged, outcome, failedAt, prevDb, batches >>
    /\ UNCHANGED pipeVars
    /\ UNCHANGED adminVars
    /\ UNCHANGED raceVars
    /\ UNCHANGED concVars

\* process_single_job 146-157: fetch the prompt, then call the Generator.
\* get_phoenix_prompt raises for a job without prompt_name.
TaskStart(d) ==
    /\ pc = "dispatch"
    /\ task[d] = "pending"
    /\ IF JobRow(sess.crawl_job, d).prompt_name = None
       THEN /\ task' = [task EXCEPT ![d] = "failed"]
            /\ doneOrder' = Append(doneOrder, d)
            /\ UNCHANGED calls
       ELSE /\ task' = [task EXCEPT ![d] = "waiting"]
            /\ calls' = [calls EXCEPT ![d] = @ + 1]
            /\ UNCHANGED doneOrder
    /\ UNCHANGED << now, db, sess, pool, pc, due, reply, result, results,
                    mi, mstep, mk, lid, merged, outcome, failedAt, prevDb, batches >>
    /\ UNCHANGED pipeVars
    /\ UNCHANGED adminVars
    /\ UNCHANGED raceVars
    /\ UNCHANGED concVars

\* The task returning the entries that have a name when others have none.
TaskReplyValidSubset(d) ==
    /\ pc = "dispatch"
    /\ task[d] = "waiting"
    /\ \E r \in pool :
          /\ reply' = [reply EXCEPT ![d] = r]
          /\ IF r.kind = "list"
             THEN /\ task' = [task EXCEPT ![d] = "ok"]
                  /\ result' = [result EXCEPT ![d] =
                        DedupByName(SelectSeq(r.entries, LAMBDA e : e.name # None))]
             ELSE /\ task' = [task EXCEPT ![d] = "failed"]
                  /\ UNCHANGED result
    /\ doneOrder' = Append(doneOrder, d)
    /\ UNCHANGED << now, db, sess, pool, pc, due, calls, results,
                    mi, mstep, mk, lid, merged, outcome, failedAt, prevDb, batches >>
    /\ UNCHANGED pipeVars
    /\ UNCHANGED adminVars
    /\ UNCHANGED raceVars
    /\ UNCHANGED concVars

\* The task stamping its job in the session as soon as it has its entries.
TaskReplySavesAtOnce(d) ==
    /\ pc = "dispatch"
    /\ task[d] = "waiting"
    /\ \E r \in pool :
          /\ reply' = [reply EXCEPT ![d] = r]
          /\ IF ReplyIsValid(r)
             THEN /\ task' = [task EXCEPT ![d] = "ok"]
                  /\ result' = [result EXCEPT ![d] = DedupByName(r.entries)]
                  /\ LET j == JobRow(sess.crawl_job, d)
                     IN  sess' = [sess EXCEPT !.crawl_job =
                                    (@ \ {j}) \cup {[j EXCEPT !.last_crawled_at = now]}]
             ELSE /\ task' = [task EXCEPT ![d] = "failed"]
                  /\ UNCHANGED << result, sess >>
    /\ doneOrder' = Append(doneOrder, d)
    /\ UNCHANGED << now, db, pool, pc, due, calls, results,
                    mi, mstep, mk, lid, merged, outcome, failedAt, prevDb, batches >>
    /\ UNCHANGED pipeVars
    /\ UNCHANGED adminVars
    /\ UNCHANGED raceVars
    /\ UNCHANGED concVars

\* call_openai_with_web_search 111-129 and process_single_job 159-166: the
\* Generator answers; an API error, text that is not JSON or an object
\* without a name raises, anything else is deduplicated by name and returned.
TaskReply(d) ==
    /\ pc = "dispatch"
    /\ task[d] = "waiting"
    /\ \E r \in pool :
          /\ reply' = [reply EXCEPT ![d] = r]
          /\ IF ReplyIsValid(r)
             THEN /\ task' = [task EXCEPT ![d] = "ok"]
                  /\ result' = [result EXCEPT ![d] = DedupByName(r.entries)]
             ELSE /\ task' = [task EXCEPT ![d] = "failed"]
                  /\ UNCHANGED result
    /\ doneOrder' = Append(doneOrder, d)
    /\ UNCHANGED << now, db, sess, pool, pc, due, calls, results,
                    mi, mstep, mk, lid, merged, outcome, failedAt, prevDb, batches >>
    /\ UNCHANGED pipeVars
    /\ UNCHANGED adminVars
    /\ UNCHANGED raceVars
    /\ UNCHANGED concVars

\* The results in the order in which the tasks ended.
GatherResultsByCompletion ==
    LET okDone == SelectSeq(doneOrder, LAMBDA d : task[d] = "ok")
    IN  [i \in 1 .. Len(okDone) |-> [domain |-> okDone[i], entries |-> result[okDone[i]]]]

\* asyncio.gather: the results in the order of the awaitables passed in.
GatherResults ==
    [i \in 1 .. Len(due) |-> [domain |-> due[i], entries |-> result[due[i]]]]

\* process_jobs_in_parallel 184-185 and process_all_jobs 268: every task has
\* returned, gather hands back the list.
GatherReturn ==
    /\ pc = "dispatch"
    /\ \A d \in Range(due) : task[d] = "ok"
    /\ results' = GatherResults
    /\ pc' = "merge"
    /\ mi' = 1
    /\ mstep' = "find"
    /\ UNCHANGED << now, db, sess, pool, due, task, reply, calls, result, doneOrder,
                    mk, lid, merged, outcome, failedAt, prevDb, batches >>
    /\ UNCHANGED pipeVars
    /\ UNCHANGED adminVars
    /\ UNCHANGED raceVars
    /\ UNCHANGED concVars

\* gather without return_exceptions: the first exception of a task is raised
\* to the awaiter at once; asyncio.run then cancels the tasks still running.
GatherRaise ==
    /\ pc = "dispatch"
    /\ \E d \in Range(due) : task[d] = "failed"
    /\ \A d \in Range(due) : task[d] # "pending"
    /\ task' = [d \in Domains |-> IF task[d] = "waiting" THEN "cancelled" ELSE task[d]]
    /\ pc' = "raised"
    /\ UNCHANGED << now, db, sess, pool, due, reply, calls, result, doneOrder, results,
                    mi, mstep, mk, lid, merged, outcome, failedAt, prevDb, batches >>
    /\ UNCHANGED pipeVars
    /\ UNCHANGED adminVars
    /\ UNCHANGED raceVars
    /\ UNCHANGED concVars

\* ------------------------------------------------------- save_job_results
CurrentJob == results[mi].domain
CurrentEntries == results[mi].entries

\* save_job_results without the delete of the old Support rows.
SaveFindOrCreateNoDelete ==
    /\ pc = "merge"
    /\ mstep = "find"
    /\ LET existing == ListingsNamed(sess, ListingName(CurrentJob))
       IN  IF existing # {}
           THEN LET l == CHOOSE x \in existing : TRUE
                IN  /\ sess' = [sess EXCEPT
                          !.support_listing = (@ \ {l}) \cup {[l EXCEPT !.uri = CurrentJob]}]
                    /\ lid' = l.id
           ELSE LET id == NewId(ListingIds, {x.id : x \in sess.support_listing})
                IN  /\ sess' = [sess EXCEPT !.support_listing =
                          @ \cup {[id |-> id, name |-> ListingName(CurrentJob), uri |-> CurrentJob]}]
                    /\ lid' = id
    /\ mstep' = "insert"
    /\ mk' = 1
    /\ UNCHANGED << now, db, pool, pc, due, task, reply, calls, result, doneOrder, results,
                    mi, merged, outcome, failedAt, prevDb, batches >>
    /\ UNCHANGED pipeVars
    /\ UNCHANGED adminVars
    /\ UNCHANGED raceVars
    /\ UNCHANGED concVars

\* save_job_results deleting the Support rows of every Listing.
SaveFindOrCreateDeletesAll ==
    /\ pc = "merge"
    /\ mstep = "find"
    /\ LET existing == ListingsNamed(sess, ListingName(CurrentJob))
       IN  IF existing # {}
           THEN LET l == CHOOSE x \in existing : TRUE
                IN  /\ sess' = [sess EXCEPT
                          !.support_listing = (@ \ {l}) \cup {[l EXCEPT !.uri = CurrentJob]},
                          !.support = {}]
                    /\ lid' = l.id
           ELSE LET id == NewId(ListingIds, {x.id : x \in sess.support_listing})
                IN  /\ sess' = [sess EXCEPT !.support_listing =
                          @ \cup {[id |-> id, name |-> ListingName(CurrentJob), uri |-> CurrentJob]}]
                    /\ lid' = id
    /\ mstep' = "insert"
    /\ mk' = 1
    /\ UNCHANGED << now, db, pool, pc, due, task, reply, calls, result, doneOrder, results,
                    mi, merged, outcome, failedAt, prevDb, batches >>
    /\ UNCHANGED pipeVars
    /\ UNCHANGED adminVars
    /\ UNCHANGED raceVars
    /\ UNCHANGED concVars

\* save_job_results 207-227: find the Listing by name; update it and delete
\* its Support rows, or create it.
SaveFindOrCreate ==
    /\ pc = "merge"
    /\ mstep = "find"
    /\ LET existing == ListingsNamed(sess, ListingName(CurrentJob))
       IN  IF existing # {}
           THEN LET l == CHOOSE x \in existing : TRUE
                IN  /\ sess' = [sess EXCEPT
                          !.support_listing = (@ \ {l}) \cup {[l EXCEPT !.uri = CurrentJob]},
                          !.support = @ \ SupportsOf(sess, l.id)]
                    /\ lid' = l.id
           ELSE LET id == NewId(ListingIds, {x.id : x \in sess.support_listing})
                IN  /\ sess' = [sess EXCEPT !.support_listing =
                          @ \cup {[id |-> id, name |-> ListingName(CurrentJob), uri |-> CurrentJob]}]
                    /\ lid' = id
    /\ mstep' = "insert"
    /\ mk' = 1
    /\ UNCHANGED << now, db, pool, pc, due, task, reply, calls, result, doneOrder, results,
                    mi, merged, outcome, failedAt, prevDb, batches >>
    /\ UNCHANGED pipeVars
    /\ UNCHANGED adminVars
    /\ UNCHANGED raceVars
    /\ UNCHANGED concVars

\* save_job_results 230-241: one Support row per entry.
SaveAddRecord ==
    /\ pc = "merge"
    /\ mstep = "insert"
    /\ mk <= Len(CurrentEntries)
    /\ LET e == CurrentEntries[mk]
           id == NewId(SupportIds, {x.id : x \in sess.support})
       IN  sess' = [sess EXCEPT !.support =
                @ \cup {[id |-> id, support_listing_id |-> lid, name |-> e.name, addresses |-> e.addr]}]
    /\ mk' = mk + 1
    /\ UNCHANGED << now, db, pool, pc, due, task, reply, calls, result, doneOrder, results,
                    mi, mstep, lid, merged, outcome, failedAt, prevDb, batches >>
    /\ UNCHANGED pipeVars
    /\ UNCHANGED adminVars
    /\ UNCHANGED raceVars
    /\ UNCHANGED concVars

\* The stamp written to every row of crawl_job instead of the job's own.
SaveStampAllJobs ==
    /\ pc = "merge"
    /\ mstep = "insert"
    /\ mk > Len(CurrentEntries)
    /\ sess' = [sess EXCEPT !.crawl_job = {[j EXCEPT !.last_crawled_at = now] : j \in @}]
    /\ merged' = merged \cup {CurrentJob}
    /\ IF mi < Len(results)
       THEN /\ mi' = mi + 1
            /\ mstep' = "find"
            /\ pc' = "merge"
       ELSE /\ mi' = mi
            /\ mstep' = "none"
            /\ pc' = "commit"
    /\ mk' = 0
    /\ UNCHANGED << now, db, pool, due, task, reply, calls, result, doneOrder, results,
                    lid, outcome, failedAt, prevDb, batches >>
    /\ UNCHANGED pipeVars
    /\ UNCHANGED adminVars
    /\ UNCHANGED raceVars
    /\ UNCHANGED concVars

\* save_job_results 243-245, then the next turn of the loop of
\* process_all_jobs 271-273, or its return to main.
SaveStamp ==
    /\ pc = "merge"
    /\ mstep = "insert"
    /\ mk > Len(CurrentEntries)
    /\ LET j == JobRow(sess.crawl_job, CurrentJob)
       IN  sess' = [sess EXCEPT !.crawl_job = (@ \ {j}) \cup {[j EXCEPT !.last_crawled_at = now]}]
    /\ merged' = merged \cup {CurrentJob}
    /\ IF mi < Len(results)
       THEN /\ mi' = mi + 1
            /\ mstep' = "find"
            /\ pc' = "merge"
       ELSE /\ mi' = mi
            /\ mstep' = "none"
            /\ pc' = "commit"
    /\ mk' = 0
    /\ UNCHANGED << now, db, pool, due, task, reply, calls, result, doneOrder, results,
                    lid, outcome, failedAt, prevDb, batches >>
    /\ UNCHANGED pipeVars
    /\ UNCHANGED adminVars
    /\ UNCHANGED raceVars
    /\ UNCHANGED concVars

\* A statement of the merge, or the commit, fails in the database
\* (constraint violation, lost connection): the exception leaves
\* process_all_jobs.
PersistenceError ==
    /\ pc \in {"merge", "commit"}
    /\ mi > 0
    /\ pc' = "raised"
    /\ failedAt' = IF pc = "merge" THEN mi ELSE 0
    /\ UNCHANGED << now, db, sess, pool, due, task, reply, calls, result, doneOrder, results,
                    mi, mstep, mk, lid, merged, outcome, prevDb, batches >>
    /\ UNCHANGED pipeVars
    /\ UNCHANGED adminVars
    /\ UNCHANGED raceVars
    /\ UNCHANGED concVars

\* The transaction committed although an exception left the block.
RollbackKeepsSession ==
    /\ pc = "raised"
    /\ db' = sess
    /\ outcome' = "rolledback"
    /\ pc' = "idle"
    /\ UNCHANGED << now, sess, pool, due, task, reply, calls, result, doneOrder, results,
                    mi, mstep, mk, lid, merged, failedAt, prevDb, batches >>
    /\ UNCHANGED pipeVars
    /\ UNCHANGED adminVars
    /\ UNCHANGED raceVars
    /\ UNCHANGED concVars

\* main 281-282: an exception leaves the with block of db_session.begin(),
\* which rolls the transaction back.
Rollback ==
    /\ pc = "raised"
    /\ sess' = db
    /\ outcome' = "rolledback"
    /\ pc' = "idle"
    /\ UNCHANGED << now, db, pool, due, task, reply, calls, result, doneOrder, results,
                    mi, mstep, mk, lid, merged, failedAt, prevDb, batches >>
    /\ UNCHANGED pipeVars
    /\ UNCHANGED adminVars
    /\ UNCHANGED raceVars
    /\ UNCHANGED concVars

\* main 281-283: the with block of db_session.begin() ends normally and
\* commits.
Commit ==
    /\ pc = "commit"
    /\ db' = sess
    /\ outcome' = "committed"
    /\ pc' = "idle"
    /\ UNCHANGED << now, sess, pool, due, task, reply, calls, result, doneOrder, results,
                    mi, mstep, mk, lid, merged, failedAt, prevDb, batches >>
    /\ UNCHANGED pipeVars
    /\ UNCHANGED adminVars
    /\ UNCHANGED raceVars
    /\ UNCHANGED concVars

\* process_all_jobs 262-264, 275: what the call handed to main when the run
\* ended: None, from the early return and from the end of the function alike,
\* or the exception that left it.
process_all_jobs_returned ==
    IF outcome = "committed" THEN [kind |-> "None"] ELSE [kind |-> "raised"]

BatchNext ==
    \/ Tick
    \/ BeginBatch
    \/ ClientUnbound
    \/ Dispatch
    \/ \E d \in Domains : TaskStart(d)
    \/ \E d \in Domains : TaskReply(d)
    \/ GatherReturn
    \/ GatherRaise
    \/ SaveFindOrCreate
    \/ SaveAddRecord
    \/ SaveStamp
    \/ PersistenceError
    \/ Rollback
    \/ Commit

Next == BatchNext

Spec == Init /\ [][Next]_vars

\* ------------------------------------------- the pipeline's retry loop
\* runner.return_response / pipeline.run(): a new run; component_visits
\* starts at zero in every run.
PipelineRun ==
    /\ ppc \in {"idle", "done", "failed"}
    /\ runs < MaxRuns
    /\ runs' = runs + 1
    /\ ppc' = "prompt_builder"
    /\ visits' = [c \in Components |-> 0]
    /\ feedback' = NoFeedback
    /\ prompt' = NoFeedback
    /\ prompts' = << >>
    /\ replies' = << >>
    /\ saved' = None
    /\ failure' = "none"
    /\ UNCHANGED batchVars
    /\ UNCHANGED adminVars
    /\ UNCHANGED raceVars
    /\ UNCHANGED concVars

\* The pipeline raises PipelineMaxComponentRuns when the component it is
\* about to run was already run more than max_runs_per_component times
\* (pipeline_wrapper.py 85-87: a component may run max_runs_per_component+1
\* times).
MaxRunsExceeded(c) == visits[c] > max_runs_per_component

PipelineMaxComponentRuns ==
    /\ ppc \in Components
    /\ MaxRunsExceeded(ppc)
    /\ ppc' = "failed"
    /\ failure' = "max_runs"
    /\ UNCHANGED << visits, feedback, prompt, prompts, replies, saved, runs >>
    /\ UNCHANGED batchVars
    /\ UNCHANGED adminVars
    /\ UNCHANGED raceVars
    /\ UNCHANGED concVars

\* prompt_builder: the template with the query and the supports and, when the
\* validator sent them, error_message and invalid_replies
\* (pipeline_wrapper.py 111-124, 135-136).
RunPromptBuilder ==
    /\ ppc = "prompt_builder"
    /\ ~MaxRunsExceeded("prompt_builder")
    /\ visits' = [visits EXCEPT !["prompt_builder"] = @ + 1]
    /\ prompt' = feedback
    /\ ppc' = "llm"
    /\ UNCHANGED << feedback, prompts, replies, saved, failure, runs >>
    /\ UNCHANGED batchVars
    /\ UNCHANGED adminVars
    /\ UNCHANGED raceVars
    /\ UNCHANGED concVars

\* llm: one call of the Generator with the prompt built
\* (pipeline_wrapper.py 125, 130-131); the call can fail.
RunLlm ==
    /\ ppc = "llm"
    /\ ~MaxRunsExceeded("llm")
    /\ visits' = [visits EXCEPT !["llm"] = @ + 1]
    /\ prompts' = Append(prompts, prompt)
    /\ \/ /\ \E t \in Texts : replies' = Append(replies, t)
          /\ ppc' = "output_validator"
          /\ UNCHANGED failure
       \/ /\ ppc' = "failed"
          /\ failure' = "llm_error"
          /\ UNCHANGED replies
    /\ UNCHANGED << feedback, prompt, saved, runs >>
    /\ UNCHANGED batchVars
    /\ UNCHANGED adminVars
    /\ UNCHANGED raceVars
    /\ UNCHANGED concVars

\* output_validator: valid replies go to save_result and end the run;
\* invalid replies and the error message go back to prompt_builder
\* (pipeline_wrapper.py 126, 131-136).
RunOutputValidator ==
    /\ ppc = "output_validator"
    /\ ~MaxRunsExceeded("output_validator")
    /\ visits' = [visits EXCEPT !["output_validator"] = @ + 1]
    /\ LET out == LlmOutputValidatorRun(replies[Len(replies)])
       IN  IF out.raised
           THEN /\ ppc' = "failed"
                /\ failure' = "validator_raised"
                /\ UNCHANGED << feedback, saved >>
           ELSE IF out.valid_replies # None
           THEN /\ ppc' = "done"
                /\ saved' = out.valid_replies
                /\ UNCHANGED << feedback, failure >>
           ELSE /\ ppc' = "prompt_builder"
                /\ feedback' = [invalid_replies |-> out.invalid_replies,
                                error_message |-> out.error_message]
                /\ UNCHANGED << saved, failure >>
    /\ UNCHANGED << prompt, prompts, replies, runs >>
    /\ UNCHANGED batchVars
    /\ UNCHANGED adminVars
    /\ UNCHANGED raceVars
    /\ UNCHANGED concVars

PipeNext ==
    \/ PipelineRun
    \/ PipelineMaxComponentRuns
    \/ RunPromptBuilder
    \/ RunLlm
    \/ RunOutputValidator

\* ------------------- concurrent calls of run() on the one pipeline object
\* PipelineWrapper.setup builds one Pipeline (pipeline_wrapper.py 80-82) that
\* every request runs. Its components keep no state across runs
\* (components.py 562-564).
ConcUnchanged ==
    /\ UNCHANGED batchVars
    /\ UNCHANGED pipeVars
    /\ UNCHANGED adminVars
    /\ UNCHANGED raceVars

\* The counter kept on the pipeline object and shared by the runs under way.
component_visits_shared(i, c) ==
    inv[i].visits[c] + inv[CHOOSE j \in Invocations : j # i].visits[c]

\* pipeline_wrapper.py 86: component_visits belongs to the call of
\* pipeline.run().
component_visits(i, c) == inv[i].visits[c]

\* A caller enters pipeline.run(): component_visits starts at zero.
InvocationRun(i) ==
    /\ inv[i].pc \in {"idle", "done", "failed"}
    /\ inv[i].n < MaxRuns
    /\ inv' = [inv EXCEPT ![i] =
          [pc |-> "prompt_builder", visits |-> [c \in Components |-> 0], calls |-> 0,
           last |-> None, failure |-> "none", n |-> inv[i].n + 1, prev |-> inv[i].failure]]
    /\ ConcUnchanged

\* The run of caller i executes its next component, or raises
\* PipelineMaxComponentRuns when that component was already run more than
\* max_runs_per_component times in this run.
InvocationStep(i) ==
    /\ inv[i].pc \in Components
    /\ LET c == inv[i].pc
           visited == [inv[i].visits EXCEPT ![c] = @ + 1]
       IN  IF component_visits(i, c) > max_runs_per_component
           THEN inv' = [inv EXCEPT ![i].pc = "failed", ![i].failure = "max_runs"]
           ELSE IF c = "prompt_builder"
           THEN inv' = [inv EXCEPT ![i].pc = "llm", ![i].visits = visited]
           ELSE IF c = "llm"
           THEN \/ \E t \in Texts :
                      inv' = [inv EXCEPT ![i].pc = "output_validator", ![i].visits = visited,
                                         ![i].calls = @ + 1, ![i].last = t]
                \/ inv' = [inv EXCEPT ![i].pc = "failed", ![i].visits = visited,
                                      ![i].calls = @ + 1, ![i].failure = "llm_error"]
           ELSE LET out == LlmOutputValidatorRun(inv[i].last)
                IN  IF out.raised
                    THEN inv' = [inv EXCEPT ![i].pc = "failed", ![i].visits = visited,
                                            ![i].failure = "validator_raised"]
                    ELSE IF out.valid_replies # None
                    THEN inv' = [inv EXCEPT ![i].pc = "done", ![i].visits = visited]
                    ELSE inv' = [inv EXCEPT ![i].pc = "prompt_builder", ![i].visits = visited]
    /\ ConcUnchanged

NextConc ==
    \/ \E i \in Invocations : InvocationRun(i)
    \/ \E i \in Invocations : InvocationStep(i)

\* The batch at rest, with one table of jobs.
DefaultJobs ==
    {[id |-> DomainId[d], domain |-> d, prompt_name |-> "crawl_gcta",
      crawling_interval |-> 1, last_crawled_at |-> Never] : d \in Domains}

InitPipe ==
    /\ now = 0
    /\ db = [crawl_job |-> DefaultJobs, support_listing |-> InitListings, support |-> InitSupports]
    /\ sess = db
    /\ prevDb = db
    /\ pool = BatchReplies
    /\ IdleLocals
    /\ PipeIdle

SpecPipe == InitPipe /\ [][PipeNext]_vars

SpecConc == InitPipe /\ [][NextConc]_vars

\* ------------------------------------------- the scheduler on its own
\* Any table of jobs, at any time.
DueJobTables ==
    {{[id |-> DomainId[d], domain |-> d, prompt_name |-> "crawl_gcta",
       crawling_interval |-> iv[d], last_crawled_at |-> lc[d]] : d \in D} :
        D \in SUBSET Domains,
        iv \in [Domains -> 1 .. MaxInterval],
        lc \in [Domains -> {Never} \cup (0 .. MaxTime)]}

InitDue ==
    /\ now \in 0 .. MaxTime
    /\ \E jobs \in DueJobTables :
          db = [crawl_job |-> jobs, support_listing |-> InitListings, support |-> InitSupports]
    /\ sess = db
    /\ prevDb = db
    /\ pool = BatchReplies
    /\ IdleLocals
    /\ PipeIdle

SpecDue == InitDue /\ [][BeginBatch]_vars

\* ------------------------------ one job, any reply of the Generator
InitDedup ==
    /\ now = 0
    /\ db = [crawl_job |-> {j \in DefaultJobs : j.domain = "a.org"},
             support_listing |-> InitListings, support |-> InitSupports]
    /\ sess = db
    /\ prevDb = db
    /\ pool = AllReplies
    /\ IdleLocals
    /\ PipeIdle

SpecDedup == InitDedup /\ [][Next]_vars

\* ------------------- one job, replies that leave out the optional fields
OptionalReplies ==
    {ReplyOf("error", << >>),
     ReplyOf("list", << [name |-> "A", addr |-> "x"] >>),
     ReplyOf("list", << [name |-> "A", addr |-> Omitted] >>),
     ReplyOf("list", << [name |-> "A", addr |-> "x"], [name |-> "B", addr |-> Omitted] >>)}

InitOptional ==
    /\ now = 0
    /\ db = [crawl_job |-> {j \in DefaultJobs : j.domain = "a.org"},
             support_listing |-> InitListings, support |-> InitSupports]
    /\ sess = db
    /\ prevDb = db
    /\ pool = OptionalReplies
    /\ IdleLocals
    /\ PipeIdle

SpecOptional == InitOptional /\ [][Next]_vars

\* ------------------------ tables with no job, or with jobs that are not due
QuietJobTables ==
    {{[id |-> DomainId[d], domain |-> d, prompt_name |-> "crawl_gcta",
       crawling_interval |-> 1, last_crawled_at |-> lc[d]] : d \in D} :
        D \in SUBSET Domains,
        lc \in [Domains -> {Never, 0}]}

InitQuiet ==
    /\ now = 0
    /\ \E jobs \in QuietJobTables :
          db = [crawl_job |-> jobs, support_listing |-> InitListings, support |-> InitSupports]
    /\ sess = db
    /\ prevDb = db
    /\ pool = BatchReplies
    /\ IdleLocals
    /\ PipeIdle

SpecQuiet == InitQuiet /\ [][Next]_vars

\* ------------------------------------ the commands that manage the store
\* Each command runs in a transaction of its own (the main() of its module),
\* between batch runs.
BatchUnchanged ==
    UNCHANGED << now, pool, pc, due, task, reply, calls, result, doneOrder, results,
                 mi, mstep, mk, lid, merged, outcome, failedAt, prevDb, batches >>

Command(op, arg, prompt_name, interval, ret) ==
    [n |-> adm.cmd.n + 1, op |-> op, arg |-> arg, prompt |-> prompt_name,
     interval |-> interval, ret |-> ret]

Intervals == (-1) .. MaxInterval

\* manage_crawl_job.py main, "upsert".
UpsertCrawlJob ==
    /\ pc = "idle"
    /\ adm.cmd.n < MaxOps
    /\ \E p \in PromptNames \cup {None}, d \in Domains, iv \in Intervals :
          LET r == upsert_crawl_job(db, p, d, iv)
          IN  /\ db' = r.store
              /\ sess' = r.store
              /\ adm' = [cmd |-> Command("upsert", d, p, iv, r.ret), before |-> db, after |-> r.store]
    /\ BatchUnchanged
    /\ UNCHANGED pipeVars
    /\ UNCHANGED raceVars
    /\ UNCHANGED concVars

\* manage_crawl_job.py main, "delete".
DeleteCrawlJob ==
    /\ pc = "idle"
    /\ adm.cmd.n < MaxOps
    /\ \E d \in Domains :
          LET r == delete_crawl_job(db, d)
          IN  /\ db' = r.store
              /\ sess' = r.store
              /\ adm' = [cmd |-> Command("delete_crawl_job", d, None, 0, r.ret),
                          before |-> db, after |-> r.store]
    /\ BatchUnchanged
    /\ UNCHANGED pipeVars
    /\ UNCHANGED raceVars
    /\ UNCHANGED concVars

\* delete_support_listing.py main.
DeleteSupportListing ==
    /\ pc = "idle"
    /\ adm.cmd.n < MaxOps
    /\ \E name \in {ManualListingName} \cup {ListingName(d) : d \in Domains} :
          LET r == delete_support_listing_by_name(db, name)
          IN  /\ db' = r.store
              /\ sess' = r.store
              /\ adm' = [cmd |-> Command("delete_support_listing", name, None, 0, r.ret),
                          before |-> db, after |-> r.store]
    /\ BatchUnchanged
    /\ UNCHANGED pipeVars
    /\ UNCHANGED raceVars
    /\ UNCHANGED concVars

\* delete_support.py main, without --delete-listing.
DeleteSupport ==
    /\ pc = "idle"
    /\ adm.cmd.n < MaxOps
    /\ \E name \in Names :
          LET r == delete_support_by_name(db, name)
          IN  /\ db' = r.store
              /\ sess' = r.store
              /\ adm' = [cmd |-> Command("delete_support", name, None, 0, r.ret),
                          before |-> db, after |-> r.store]
    /\ BatchUnchanged
    /\ UNCHANGED pipeVars
    /\ UNCHANGED raceVars
    /\ UNCHANGED concVars

\* A manually ingested Listing whose uri is a crawled domain, and the Listing
\* of an earlier crawl of a.org.
AdminListings ==
    {[id |-> 1, name |-> ManualListingName, uri |-> "a.org"],
     [id |-> 2, name |-> ListingName("a.org"), uri |-> "a.org"]}

AdminReplies ==
    {ReplyOf("error", << >>), ReplyOf("list", << [name |-> "A", addr |-> "y"] >>)}

InitAdmin ==
    /\ now = MaxTime - 1
    /\ db = [crawl_job |-> DefaultJobs, support_listing |-> AdminListings, support |-> InitSupports]
    /\ sess = db
    /\ prevDb = db
    /\ pool = AdminReplies
    /\ IdleLocals
    /\ PipeIdle

NextAdmin ==
    \/ Tick
    \/ BeginBatch
    \/ ClientUnbound
    \/ Dispatch
    \/ \E d \in Domains : TaskStart(d)
    \/ \E d \in Domains : TaskReply(d)
    \/ GatherReturn
    \/ GatherRaise
    \/ SaveFindOrCreate
    \/ SaveAddRecord
    \/ SaveStamp
    \/ PersistenceError
    \/ Rollback
    \/ Commit
    \/ UpsertCrawlJob
    \/ DeleteCrawlJob
    \/ DeleteSupportListing
    \/ DeleteSupport

SpecAdmin == InitAdmin /\ [][NextAdmin]_vars

\* --------------------- the registry of jobs and the selection of due jobs
\* Jobs are registered again while the clock runs; a batch run then selects
\* the due jobs.
NextRegistry ==
    \/ Tick
    \/ UpsertCrawlJob
    \/ BeginBatch

SpecRegistry == Init /\ [][NextRegistry]_vars

\* --------------------------------- the batch run with its scheduling
\* What the code's scheduling guarantees: the event loop of asyncio.run runs
\* every coroutine that can run, process_all_jobs and main go on to their
\* next statement, the with block commits or rolls back. The answer of the
\* Generator is awaited without a timeout (process_crawl_jobs.py 111-116),
\* so nothing guarantees that TaskReply ever happens; nor does anything
\* guarantee the next Tick, the next batch run, or a database error.
Fairness ==
    /\ WF_vars(ClientUnbound \/ Dispatch)
    /\ \A d \in Domains : WF_vars(TaskStart(d))
    /\ WF_vars(GatherReturn)
    /\ WF_vars(GatherRaise)
    /\ WF_vars(SaveFindOrCreate)
    /\ WF_vars(SaveAddRecord)
    /\ WF_vars(SaveStamp)
    /\ WF_vars(Rollback)
    /\ WF_vars(Commit)

SpecFair == InitPipe /\ [][Next]_vars /\ Fairness

\* ------------------------ two runs of main() merging the same job at once
\* Each run has its own session and transaction (main 281-282) and executes
\* save_job_results for the job of RaceDomain. A statement reads the rows
\* committed when it starts and the run's own writes; a row written by a
\* transaction still open makes another writer of that row wait; the unique
\* index on support_listing.name makes a second insert of the name wait for
\* the first and fail when the first commits.
RaceDomain == "a.org"
Other(t) == CHOOSE o \in Runs : o # t
Active(t) == tx[t].pc \notin {"idle", "committed", "failed"}
RaceUnchanged ==
    UNCHANGED << now, sess, pool, pc, due, task, reply, calls, result, doneOrder, results,
                 mi, mstep, mk, lid, merged, outcome, failedAt, prevDb, batches >>

\* save_job_results 207-212: look the Listing up by name.
TxFind(t) ==
    /\ tx[t].pc = "idle"
    /\ tx[t].entries # << >>
    /\ LET existing == ListingsNamed(db, ListingName(RaceDomain))
       IN  IF existing = {}
           THEN tx' = [tx EXCEPT ![t].pc = "create"]
           ELSE LET l == CHOOSE x \in existing : TRUE
                IN  tx' = [tx EXCEPT ![t].pc = "update", ![t].lid = l.id, ![t].loadedUri = l.uri]
    /\ UNCHANGED db
    /\ RaceUnchanged
    /\ UNCHANGED pipeVars
    /\ UNCHANGED adminVars
    /\ UNCHANGED concVars

\* save_job_results 222-227: add the Listing and flush. The insert waits
\* while the other run holds an uncommitted Listing of that name, and raises
\* IntegrityError when a Listing of that name is committed.
TxCreate(t) ==
    /\ tx[t].pc = "create"
    /\ ~(Active(Other(t)) /\ tx[Other(t)].newListing)
    /\ IF ListingsNamed(db, ListingName(RaceDomain)) # {}
       THEN tx' = [tx EXCEPT ![t].pc = "failed"]
       ELSE tx' = [tx EXCEPT ![t].pc = "add", ![t].newListing = TRUE,
                             ![t].lid = NewId(ListingIds, {x.id : x \in db.support_listing})]
    /\ UNCHANGED db
    /\ RaceUnchanged
    /\ UNCHANGED pipeVars
    /\ UNCHANGED adminVars
    /\ UNCHANGED concVars

\* save_job_results 214-216: the uri is assigned; the UPDATE is issued (with
\* the flush that precedes the delete query) only when the value differs from
\* the one loaded, and waits while the other run holds the row.
TxUpdateUri(t) ==
    /\ tx[t].pc = "update"
    /\ IF tx[t].loadedUri = RaceDomain
       THEN tx' = [tx EXCEPT ![t].pc = "delete"]
       ELSE /\ ~(Active(Other(t)) /\ tx[Other(t)].updUri)
            /\ tx' = [tx EXCEPT ![t].pc = "delete", ![t].updUri = TRUE]
    /\ UNCHANGED db
    /\ RaceUnchanged
    /\ UNCHANGED pipeVars
    /\ UNCHANGED adminVars
    /\ UNCHANGED concVars

\* save_job_results 218-220: delete the Support rows of the Listing that the
\* statement sees. When one of them is being deleted by the other run, the
\* statement waits for that run to end.
TxDelete(t) ==
    /\ tx[t].pc = "delete"
    /\ LET visible == {s.id : s \in SupportsOf(db, tx[t].lid)}
       IN  IF Active(Other(t)) /\ visible \cap tx[Other(t)].del # {}
           THEN tx' = [tx EXCEPT ![t].pc = "delete_wait", ![t].snap = visible]
           ELSE tx' = [tx EXCEPT ![t].pc = "add", ![t].del = visible]
    /\ UNCHANGED db
    /\ RaceUnchanged
    /\ UNCHANGED pipeVars
    /\ UNCHANGED adminVars
    /\ UNCHANGED concVars

\* The other run has ended: the waiting delete goes on with the rows it had
\* seen, skipping those that are gone.
TxDeleteResume(t) ==
    /\ tx[t].pc = "delete_wait"
    /\ ~Active(Other(t))
    /\ tx' = [tx EXCEPT ![t].pc = "add",
                        ![t].del = tx[t].snap \cap {s.id : s \in db.support}]
    /\ UNCHANGED db
    /\ RaceUnchanged
    /\ UNCHANGED pipeVars
    /\ UNCHANGED adminVars
    /\ UNCHANGED concVars

\* save_job_results 229-245: the Support objects are added to the session
\* and the job is stamped; both are written with the flush of the commit.
TxAdd(t) ==
    /\ tx[t].pc = "add"
    /\ tx' = [tx EXCEPT ![t].pc = "commit"]
    /\ UNCHANGED db
    /\ RaceUnchanged
    /\ UNCHANGED pipeVars
    /\ UNCHANGED adminVars
    /\ UNCHANGED concVars

\* Row ids are never used twice.
MaxOf(S) == IF S = {} THEN 0 ELSE CHOOSE m \in S : \A x \in S : x <= m
UsedSupportIds ==
    {s.id : s \in db.support} \cup UNION {tx[t].del \cup tx[t].snap : t \in Runs}

NewSupportRows(t) ==
    {[id |-> MaxOf(UsedSupportIds) + k, support_listing_id |-> tx[t].lid,
      name |-> tx[t].entries[k].name, addresses |-> tx[t].entries[k].addr] :
        k \in 1 .. Len(tx[t].entries)}

\* main 281-283: the with block ends; the session flushes and commits.
TxCommit(t) ==
    /\ tx[t].pc = "commit"
    /\ db' = [db EXCEPT
          !.support_listing =
              IF tx[t].newListing
              THEN @ \cup {[id |-> tx[t].lid, name |-> ListingName(RaceDomain), uri |-> RaceDomain]}
              ELSE IF tx[t].updUri
              THEN {IF l.id = tx[t].lid THEN [l EXCEPT !.uri = RaceDomain] ELSE l : l \in @}
              ELSE @,
          !.support = {s \in @ : s.id \notin tx[t].del} \cup NewSupportRows(t),
          !.crawl_job = {IF j.domain = RaceDomain THEN [j EXCEPT !.last_crawled_at = now] ELSE j :
                            j \in @}]
    /\ tx' = [tx EXCEPT ![t].pc = "committed"]
    /\ RaceUnchanged
    /\ UNCHANGED pipeVars
    /\ UNCHANGED adminVars
    /\ UNCHANGED concVars

\* A statement fails in the database: the exception leaves the with block
\* and the transaction is rolled back.
TxError(t) ==
    /\ Active(t)
    /\ tx' = [tx EXCEPT ![t].pc = "failed"]
    /\ UNCHANGED db
    /\ RaceUnchanged
    /\ UNCHANGED pipeVars
    /\ UNCHANGED adminVars
    /\ UNCHANGED concVars

\* The entries the two runs merge.
RaceEntries ==
    {<< [name |-> "A", addr |-> "x"] >>, << [name |-> "B", addr |-> "x"] >>,
     << [name |-> "A", addr |-> "y"], [name |-> "B", addr |-> "y"] >>}

\* The Listing of the job: absent, present as an earlier merge left it, or
\* present with another uri.
RaceListings ==
    {{[id |-> 1, name |-> ManualListingName, uri |-> "guide.pdf"]},
     InitListings,
     AdminListings}

InitRace ==
    /\ now = 0
    /\ \E ls \in RaceListings :
          db = [crawl_job |-> DefaultJobs, support_listing |-> ls,
                support |-> {s \in InitSupports : \E l \in ls : l.id = s.support_listing_id}]
    /\ sess = db
    /\ prevDb = db
    /\ pool = BatchReplies
    /\ \E e \in [Runs -> RaceEntries] : tx = [t \in Runs |-> [NoTx EXCEPT !.entries = e[t]]]
    /\ IdleBatch
    /\ PipeIdle

NextRace ==
    \/ \E t \in Runs : TxFind(t)
    \/ \E t \in Runs : TxCreate(t)
    \/ \E t \in Runs : TxUpdateUri(t)
    \/ \E t \in Runs : TxDelete(t)
    \/ \E t \in Runs : TxDeleteResume(t)
    \/ \E t \in Runs : TxAdd(t)
    \/ \E t \in Runs : TxCommit(t)
    \/ \E t \in Runs : TxError(t)

SpecRace == InitRace /\ [][NextRace]_vars

TypeOK ==
    /\ now \in 0 .. MaxTime
    /\ pc \in {"idle", "selected", "dispatch", "merge", "commit", "raised"}
    /\ \A d \in Domains : task[d] \in {"none", "pending", "waiting", "ok", "failed", "cancelled"}
    /\ \A s \in sess.support : s.id \in SupportIds
    /\ \A l \in sess.support_listing : l.id \in ListingIds

\* ============================================================ the claims
LastCrawled(store, d) == JobRow(store.crawl_job, d).last_crawled_at
BatchEnded == pc = "idle" /\ outcome # "none"
Committed == pc = "idle" /\ outcome = "committed"

\* The Listing of job d holds exactly the entries its task returned, and the
\* job is stamped.
MergedInDb(d) ==
    /\ Cardinality(ListingsNamed(db, ListingName(d))) = 1
    /\ RecordsOf(db, ListingName(d)) = Range(result[d])
    /\ LastCrawled(db, d) # LastCrawled(prevDb, d)

\* C1 (as claimed): failure isolation. When a batch run in which the
\* extraction of some job failed has ended, every other job of the batch
\* whose extraction succeeded has its Listing merged and its last_crawled_at
\* updated in the database.
C1_FailureIsolation ==
    (BatchEnded /\ \E d \in Range(due) : task[d] = "failed" /\ reply[d] # NoReply)
        => \A d \in Range(due) : task[d] = "ok" => MergedInDb(d)

\* The state of the Listing of job d in a store: its rows, uri and Records.
ListingState(store, d) ==
    [uris |-> {l.uri : l \in ListingsNamed(store, ListingName(d))},
     records |-> RecordsOf(store, ListingName(d)),
     rows |-> Cardinality(RecordRows(store, ListingName(d)))]

\* C2: merge atomicity. In every state the committed Listing of each job
\* holds either the complete Record set it had when the batch run began, or
\* the complete new set of a merge that ran to its end and was committed;
\* never a half-replaced set.
C2_MergeAtomicity ==
    \A d \in Domains :
        \/ ListingState(db, d) = ListingState(prevDb, d)
        \/ /\ d \in merged
           /\ outcome = "committed"
           /\ ListingState(db, d) =
                [uris |-> {d}, records |-> Range(result[d]), rows |-> Len(result[d])]

\* A persistence error struck after the old Records of an existing Listing
\* were deleted in the session, the transaction was rolled back, and the
\* database still holds the old Records.
C2_Witness ==
    /\ pc = "idle"
    /\ outcome = "rolledback"
    /\ failedAt > 0
    /\ mstep = "insert"
    /\ RecordsOf(db, ListingName(results[failedAt].domain)) # {}
    /\ RecordsOf(db, ListingName(results[failedAt].domain)) # Range(results[failedAt].entries)

\* C3 (as claimed): per-job transaction scope. When a persistence error
\* aborted the merge of one job of the batch, the merges of the jobs saved
\* before it in the same run are in the database, and the failing job's
\* last_crawled_at is unchanged.
C3_PerJobTransaction ==
    (BatchEnded /\ failedAt > 0)
        => /\ \A i \in 1 .. (failedAt - 1) : MergedInDb(results[i].domain)
           /\ LastCrawled(db, results[failedAt].domain)
                = LastCrawled(prevDb, results[failedAt].domain)

\* C7: replace semantics. Once save_job_results has returned for a job (and
\* as long as the transaction is not rolled back), the Listing named
\* "Crawl Job: " + domain exists exactly once, its uri is the domain, and its
\* Records are exactly one per entry; after the commit the same holds of the
\* database. No Record of an earlier merge remains.
C7_ReplaceSemantics ==
    (pc \in {"merge", "commit"} \/ Committed)
        => \A d \in merged :
             /\ Cardinality(ListingsNamed(sess, ListingName(d))) = 1
             /\ ListingState(sess, d) =
                  [uris |-> {d}, records |-> Range(result[d]), rows |-> Len(result[d])]
             /\ Committed => ListingState(db, d) = ListingState(sess, d)

\* The second batch run replaced the Record A of the first by the Record B.
C7_Witness ==
    /\ Committed
    /\ batches = 2
    /\ \E d \in merged :
          /\ RecordsOf(prevDb, ListingName(d)) = {[name |-> "A", addr |-> "x"]}
          /\ RecordsOf(db, ListingName(d)) = {[name |-> "B", addr |-> "x"]}
          /\ LastCrawled(prevDb, d) # Never

IsDueAt(job, t) ==
    \/ job.last_crawled_at = Never
    \/ t - job.last_crawled_at >= job.crawling_interval * TicksPerHour

\* C8: last_crawled_at changes in the database only by a committed merge of
\* that job; after a batch run in which the job's extraction failed or its
\* merge was not committed it has its previous value, and the job is still
\* due.
C8_StampOnlyOnSuccess ==
    /\ \A d \in Domains :
          LastCrawled(db, d) # LastCrawled(prevDb, d) => (d \in merged /\ outcome = "committed")
    /\ BatchEnded =>
          \A d \in Range(due) :
             (task[d] # "ok" \/ outcome # "committed")
                => /\ LastCrawled(db, d) = LastCrawled(prevDb, d)
                   /\ IsDueAt(JobRow(db.crawl_job, d), now)

\* A batch run ended in which one job's extraction succeeded and another's
\* failed; the job that succeeded was crawled before and is still due.
C8_Witness ==
    /\ BatchEnded
    /\ \E d, e \in Range(due) :
          /\ task[d] = "ok"
          /\ task[e] = "failed"
          /\ LastCrawled(db, d) # Never

C4_RetryTermination ==
    (ppc = "failed" /\ failure = "max_runs")
        => Len(replies) = max_runs_per_component

\* C5: retry success path. When the first reply of the Generator is invalid
\* and the second valid, the second call of the Generator was made with a
\* prompt carrying the invalid first reply and the validator's error message
\* for it, and the run ends in success with the second reply, after two
\* calls.
C5_RetrySuccessPath ==
    (Len(replies) >= 2 /\ replies[1] # NoText /\ ~TextIsValid(replies[1])
        /\ TextIsValid(replies[2]))
        => /\ prompts[1] = NoFeedback
           /\ prompts[2] = [invalid_replies |-> replies[1],
                            error_message |-> ErrorMessage(replies[1])]
           /\ Len(replies) = 2
           /\ ppc \in {"output_validator", "done"}
           /\ ppc = "done" => saved = replies[2]

C5_Witness ==
    /\ ppc = "done"
    /\ Len(replies) = 2
    /\ ~TextIsValid(replies[1])
    /\ saved = replies[2]

Occurrences(entries, n) == {i \in 1 .. Len(entries) : entries[i].name = n}
LastOccurrence(entries, n) ==
    CHOOSE i \in Occurrences(entries, n) : \A j \in Occurrences(entries, n) : j <= i

\* C9: dedup by name. The entries a task returns hold each name of the
\* Generator's output once, with the fields of its last occurrence; after
\* the merge the Listing has exactly one Record per name, with the address
\* of the last occurrence.
C9_DedupByName ==
    \A d \in Domains :
        /\ task[d] = "ok" =>
              \A n \in Names :
                 LET kept == {i \in 1 .. Len(result[d]) : result[d][i].name = n}
                 IN  IF Occurrences(reply[d].entries, n) = {}
                     THEN kept = {}
                     ELSE /\ Cardinality(kept) = 1
                          /\ \A i \in kept :
                                result[d][i] = reply[d].entries[LastOccurrence(reply[d].entries, n)]
        /\ (d \in merged /\ (pc \in {"merge", "commit"} \/ Committed)) =>
              \A n \in Names :
                 LET rows == {s \in RecordRows(sess, ListingName(d)) : s.name = n}
                 IN  IF Occurrences(reply[d].entries, n) = {}
                     THEN rows = {}
                     ELSE /\ Cardinality(rows) = 1
                          /\ \A s \in rows :
                                s.addresses
                                  = reply[d].entries[LastOccurrence(reply[d].entries, n)].addr

\* [{A, x}, {A, y}] was merged and committed: one Record, A with y.
C9_Witness ==
    /\ Committed
    /\ \E d \in merged :
          /\ reply[d].entries = << [name |-> "A", addr |-> "x"], [name |-> "A", addr |-> "y"] >>
          /\ RecordsOf(db, ListingName(d)) = {[name |-> "A", addr |-> "y"]}
          /\ Cardinality(RecordRows(db, ListingName(d))) = 1

\* C11: merge idempotence. When a committed merge of entries E for a job ran
\* on a store in which the job's Listing was already the result of merging E
\* (one Listing, uri the domain, one Record per entry of E), the Listing and
\* its Records are the same after it as before, row ids aside.
C11_MergeIdempotence ==
    Committed =>
        \A d \in merged :
            (ListingState(prevDb, d) =
                [uris |-> {d}, records |-> Range(result[d]), rows |-> Len(result[d])]
             /\ Cardinality(ListingsNamed(prevDb, ListingName(d))) = 1)
                => /\ ListingState(db, d) = ListingState(prevDb, d)
                   /\ Cardinality(ListingsNamed(db, ListingName(d))) = 1

\* The second batch run merged, for a job the first run had merged and
\* stamped, the same non-empty entries again.
C11_Witness ==
    /\ Committed
    /\ batches = 2
    /\ \E d \in merged :
          /\ result[d] # << >>
          /\ LastCrawled(prevDb, d) # Never
          /\ LastCrawled(prevDb, d) # 0
          /\ ListingState(prevDb, d) =
                [uris |-> {d}, records |-> Range(result[d]), rows |-> Len(result[d])]
          /\ ListingState(db, d) = ListingState(prevDb, d)

\* C12 (as claimed): end-to-end run. A batch run whose only due job was
\* never crawled and has no Listing yet, in which neither the Generator nor
\* the database failed, ends committed with one new Listing named
\* "Crawl Job: " + domain holding one Record per returned entry and with the
\* job's last_crawled_at set.
C12_EndToEndRun ==
    \A d \in Domains :
        (/\ BatchEnded
         /\ due = << d >>
         /\ LastCrawled(prevDb, d) = Never
         /\ ListingsNamed(prevDb, ListingName(d)) = {}
         /\ task[d] # "failed"
         /\ ~(outcome = "rolledback" /\ mi > 0))
            => /\ outcome = "committed"
               /\ Cardinality(ListingsNamed(db, ListingName(d))) = 1
               /\ ListingState(db, d) =
                     [uris |-> {d}, records |-> Range(result[d]), rows |-> Len(result[d])]
               /\ LastCrawled(db, d) # Never
               /\ LastCrawled(db, d) <= now

\* C13 (as claimed): the batch entry point returns a summary of the run with
\* the numbers of jobs attempted, succeeded and failed.
C13_SummaryReturned ==
    BatchEnded =>
        /\ process_all_jobs_returned.kind = "summary"
        /\ process_all_jobs_returned.attempted = Len(due)
        /\ process_all_jobs_returned.succeeded + process_all_jobs_returned.failed = Len(due)

\* C16: upsert_crawl_job with an interval that is not positive raises
\* ValueError and leaves the store as it was; every stored job has a
\* positive crawling_interval.
C16_IntervalPositive ==
    /\ \A j \in db.crawl_job \cup sess.crawl_job : j.crawling_interval > 0
    /\ adm.cmd.op = "upsert" =>
          /\ (adm.cmd.interval <= 0) <=> (adm.cmd.ret = "ValueError")
          /\ adm.cmd.interval <= 0 => adm.after = adm.before

\* An upsert with interval 0 for a domain that has a job was refused.
C16_Witness ==
    /\ adm.cmd.op = "upsert"
    /\ adm.cmd.interval = 0
    /\ adm.cmd.ret = "ValueError"
    /\ JobsOf(adm.before, adm.cmd.arg) # {}
    /\ JobsOf(db, adm.cmd.arg) = JobsOf(adm.before, adm.cmd.arg)

\* C17: at most one job per domain; an upsert for a domain that has a job
\* updates that row in place: same id, same last_crawled_at, the new
\* prompt_name and crawling_interval, and no row added.
C17_OneJobPerDomain ==
    /\ \A d \in Domains :
          /\ Cardinality(JobsOf(db, d)) <= 1
          /\ Cardinality(JobsOf(sess, d)) <= 1
    /\ (adm.cmd.op = "upsert" /\ adm.cmd.ret = "job" /\ JobsOf(adm.before, adm.cmd.arg) # {})
          => /\ Cardinality(adm.after.crawl_job) = Cardinality(adm.before.crawl_job)
             /\ JobsOf(adm.after, adm.cmd.arg) =
                   {[j EXCEPT !.prompt_name = adm.cmd.prompt,
                              !.crawling_interval = adm.cmd.interval] :
                       j \in JobsOf(adm.before, adm.cmd.arg)}
             /\ adm.after.crawl_job \ JobsOf(adm.after, adm.cmd.arg)
                   = adm.before.crawl_job \ JobsOf(adm.before, adm.cmd.arg)

\* An upsert changed the prompt_name and the interval of an existing job.
C17_Witness ==
    /\ adm.cmd.op = "upsert"
    /\ adm.cmd.ret = "job"
    /\ \E j \in JobsOf(adm.before, adm.cmd.arg) :
          /\ j.crawling_interval # adm.cmd.interval
          /\ j.prompt_name # adm.cmd.prompt
          /\ \E k \in adm.after.crawl_job :
                k.id = j.id /\ k.domain = j.domain /\ k.crawling_interval = adm.cmd.interval
    /\ Cardinality(adm.after.crawl_job) = Cardinality(Domains)

C19_RecordsBelong ==
    /\ \A s \in db.support :
          Cardinality({l \in db.support_listing : l.id = s.support_listing_id}) = 1
    /\ \A s \in sess.support :
          Cardinality({l \in sess.support_listing : l.id = s.support_listing_id}) = 1
    /\ (adm.cmd.op = "delete_support_listing" /\ adm.cmd.ret = "True")
          => /\ ListingsNamed(adm.after, adm.cmd.arg) = {}
             /\ \A l \in ListingsNamed(adm.before, adm.cmd.arg) :
                   SupportsOf(adm.after, l.id) = {}

\* After a committed merge, the Listing of a crawl job was deleted with the
\* Records it held.
C19_Witness ==
    /\ adm.cmd.op = "delete_support_listing"
    /\ adm.cmd.ret = "True"
    /\ outcome = "committed"
    /\ \E d \in merged :
          /\ adm.cmd.arg = ListingName(d)
          /\ RecordsOf(adm.before, ListingName(d)) = Range(result[d])
          /\ result[d] # << >>
          /\ RecordsOf(adm.after, ListingName(d)) = {}

\* C20: delete_crawl_job returns True exactly when the domain had a job; then
\* the job, the Listing named "Crawl Job: " + domain and that Listing's
\* Records are gone and every other row is as before; else nothing changes.
C20_DeleteCrawlJobFrame ==
    adm.cmd.op = "delete_crawl_job" =>
        LET d == adm.cmd.arg
            b == adm.before
            a == adm.after
        IN  /\ adm.cmd.ret = (IF JobsOf(b, d) # {} THEN "True" ELSE "False")
            /\ IF JobsOf(b, d) = {}
               THEN a = b
               ELSE /\ a.crawl_job = b.crawl_job \ JobsOf(b, d)
                    /\ a.support_listing =
                          {l \in b.support_listing : l.name # ListingName(d)}
                    /\ a.support =
                          {s \in b.support :
                              \A l \in ListingsNamed(b, ListingName(d)) :
                                  s.support_listing_id # l.id}

\* A job was deleted together with its Listing and Records, while a Listing
\* with another name and the domain as uri, and the other job, stayed.
C20_Witness ==
    /\ adm.cmd.op = "delete_crawl_job"
    /\ adm.cmd.ret = "True"
    /\ RecordsOf(adm.before, ListingName(adm.cmd.arg)) # {}
    /\ ListingsNamed(adm.after, ListingName(adm.cmd.arg)) = {}
    /\ \E l \in adm.after.support_listing :
          l.uri = adm.cmd.arg /\ SupportsOf(adm.after, l.id) # {}
    /\ adm.after.crawl_job # {}

\* C15 (as claimed): a Generator call that never answers does not hang the
\* batch: every batch run that has dispatched its tasks comes to its end.
C15_NoHang == (pc = "dispatch") ~> (pc = "idle")

RaceEnded == \A t \in Runs : tx[t].pc \in {"committed", "failed"}

\* C14 (as claimed): two merges of the same Listing name in concurrent
\* transactions. At most one Listing has the name; when both runs have ended,
\* a run that failed has committed nothing, and the Records of the Listing
\* are exactly the entries of one of the runs that committed.
C14_ConcurrentMerges ==
    /\ Cardinality(ListingsNamed(db, ListingName(RaceDomain))) <= 1
    /\ RaceEnded =>
          IF \A t \in Runs : tx[t].pc = "failed"
          THEN db = adm.before
          ELSE \E t \in Runs :
                  /\ tx[t].pc = "committed"
                  /\ ListingState(db, RaceDomain) =
                        [uris |-> {RaceDomain}, records |-> Range(tx[t].entries),
                         rows |-> Len(tx[t].entries)]

\* C21: validation is all-or-nothing. A task whose Generator output is not
\* JSON, or holds an object without a name, fails and returns no entries at
\* all, not those that have a name, and nothing of it is merged; a task
\* returns entries only for output that is valid as a whole. The outputs of
\* LlmOutputValidator.run are either the valid reply alone or an error (the
\* invalid reply with an error message, or an exception) alone.
C21_AllOrNothing ==
    /\ \A d \in Domains :
          /\ task[d] = "ok" =>
                (ReplyIsValid(reply[d]) /\ result[d] = DedupByName(reply[d].entries))
          /\ (reply[d] # NoReply /\ ~ReplyIsValid(reply[d])) =>
                /\ task[d] = "failed"
                /\ result[d] = << >>
                /\ d \notin merged
                /\ pc \notin {"merge", "commit"}
    /\ \A t \in Texts :
          LET out == LlmOutputValidatorRun(t)
              valid == out.valid_replies # None
              invalid == out.raised \/ out.error_message # None
          IN  /\ valid <=> ~invalid
              /\ valid <=> TextIsValid(t)
              /\ valid => (out.valid_replies = t /\ out.invalid_replies = None)
              /\ (invalid /\ ~out.raised) => out.invalid_replies = t

\* The output held an entry with a name and an object without one: the task
\* failed with no entries, and the batch run ended with nothing merged.
C21_Witness ==
    /\ BatchEnded
    /\ \E d \in Range(due) :
          /\ reply[d].kind = "list"
          /\ Len(reply[d].entries) = 2
          /\ reply[d].entries[1].name # None
          /\ reply[d].entries[2].name = None
          /\ task[d] = "failed"
          /\ result[d] = << >>
          /\ ListingState(db, d) = ListingState(prevDb, d)

\* The list value an omitted list field is normalised to.
EmptyList == "[]"

\* C22 (as claimed): validation succeeds for objects that have a name and
\* omit the optional fields: the task returns, and the entry of such an
\* object has the empty list for addresses.
C22_OptionalFieldsDefault ==
    \A d \in Domains :
        (reply[d].kind = "list"
            /\ \A i \in 1 .. Len(reply[d].entries) : reply[d].entries[i].name # None)
            => /\ task[d] = "ok"
               /\ Len(result[d]) = Len(DedupByName(reply[d].entries))
               /\ \A i \in 1 .. Len(result[d]) :
                     /\ result[d][i].name = DedupByName(reply[d].entries)[i].name
                     /\ result[d][i].addr =
                           IF DedupByName(reply[d].entries)[i].addr = Omitted
                           THEN EmptyList
                           ELSE DedupByName(reply[d].entries)[i].addr

\* C23: upsert_crawl_job accepts an absent prompt_name. An upsert with a
\* positive interval returns the job and leaves exactly one job for the
\* domain, whose prompt_name is the one given, null included; when the domain
\* had a job it is the same job (same id), whether its prompt_name went from
\* a name to null or from null to a name.
C23_PromptNameOptional ==
    (adm.cmd.op = "upsert" /\ adm.cmd.interval > 0)
        => /\ adm.cmd.ret = "job"
           /\ Cardinality(JobsOf(adm.after, adm.cmd.arg)) = 1
           /\ \A j \in JobsOf(adm.after, adm.cmd.arg) :
                 /\ j.prompt_name = adm.cmd.prompt
                 /\ \A b \in JobsOf(adm.before, adm.cmd.arg) : j.id = b.id
                 /\ JobsOf(adm.before, adm.cmd.arg) = {} =>
                       \A b \in adm.before.crawl_job : j.id # b.id

\* A first upsert took the prompt_name of a job away, a second gave the same
\* job a prompt_name again.
C23_Witness ==
    /\ adm.cmd.op = "upsert"
    /\ adm.cmd.ret = "job"
    /\ adm.cmd.n = 2
    /\ adm.cmd.prompt # None
    /\ \E b \in JobsOf(adm.before, adm.cmd.arg), a \in JobsOf(adm.after, adm.cmd.arg) :
          /\ b.prompt_name = None
          /\ a.prompt_name = adm.cmd.prompt
          /\ a.id = b.id
          /\ a.id = DomainId[adm.cmd.arg]
    /\ Cardinality(adm.after.crawl_job) = Cardinality(Domains)

\* C24 (as claimed): no early exit. Once process_jobs_in_parallel has been
\* called and control is back with its caller, by return or by exception,
\* the task of every job of the batch has ended, in success or in failure;
\* none was still running.
C24_NoEarlyExit ==
    (pc \in {"merge", "commit", "raised"} /\ \A d \in Range(due) : task[d] # "none")
        => \A d \in Range(due) : task[d] \in {"ok", "failed"}

\* C25: within a batch run the store is written only after the extraction
\* phase. While the tasks are dispatched and running, the session and the
\* database are as they were when the run began; whenever either differs
\* from that, every task of the run has ended in success. The merges run one
\* after another: while one is under way, those of the jobs before it in the
\* results are complete and those of the jobs after it have not begun.
C25_WritesAfterExtraction ==
    /\ pc \in {"selected", "dispatch"} => (sess = prevDb /\ db = prevDb)
    /\ (sess # prevDb \/ db # prevDb) =>
          (due # << >> /\ \A d \in Range(due) : task[d] = "ok")
    /\ pc = "merge" =>
          /\ merged = {results[i].domain : i \in 1 .. (mi - 1)}
          /\ \A i \in (mi + 1) .. Len(results) :
                /\ ListingState(sess, results[i].domain) = ListingState(prevDb, results[i].domain)
                /\ LastCrawled(sess, results[i].domain) = LastCrawled(prevDb, results[i].domain)
          /\ \A i \in 1 .. (mi - 1) :
                ListingState(sess, results[i].domain) =
                    [uris |-> {results[i].domain}, records |-> Range(results[i].entries),
                     rows |-> Len(results[i].entries)]

\* The tasks of two jobs ended one after the other; the merge of the first
\* job is complete in the session and the merge of the second is under way.
C25_Witness ==
    /\ pc = "merge"
    /\ Len(results) = 2
    /\ mi = 2
    /\ mstep = "insert"
    /\ mk = 2
    /\ Len(doneOrder) = 2
    /\ results[1].domain \in merged
    /\ sess # prevDb
    /\ db = prevDb

\* C26: the attempt bound is per invocation. In every run of the pipeline
\* the count of Generator calls starts at zero and counts the calls of that
\* run alone, whatever an earlier run or a run under way at the same time
\* has used: a run fails on the bound only after max_runs_per_component + 1
\* calls of its own, and no run makes more.
C26_AttemptsPerInvocation ==
    \A i \in Invocations :
        /\ component_visits(i, "llm") = inv[i].calls
        /\ inv[i].calls <= max_runs_per_component + 1
        /\ (inv[i].pc = "prompt_builder" /\ inv[i].calls = 0) =>
              \A c \in Components : component_visits(i, c) = 0
        /\ inv[i].failure = "max_runs" => inv[i].calls = max_runs_per_component + 1

\* Two runs are under way at once, each with three Generator calls made and
\* about to make its fourth; one of them follows a run of the same caller
\* that had used up its attempts.
C26_Witness ==
    /\ inv[1].pc = "llm"
    /\ inv[1].calls = max_runs_per_component
    /\ inv[1].prev = "max_runs"
    /\ inv[2].pc = "llm"
    /\ inv[2].calls = max_runs_per_component

\* C27: a batch run that finds no job due (no job registered, or every job
\* refreshed within its interval) ends committed, with no Generator call made
\* and with every job, Listing and Record as it was when the run began.
C27_NoDueNoWork ==
    /\ (pc # "idle" /\ due = << >>) => pc = "commit"
    /\ ((pc = "commit" \/ BatchEnded) /\ due = << >>) =>
          /\ db = prevDb
          /\ sess = prevDb
          /\ \A d \in Domains : calls[d] = 0 /\ reply[d] = NoReply /\ task[d] = "none"
          /\ merged = {}
          /\ BatchEnded => outcome = "committed"

\* A batch run over registered jobs, none of them due, has ended.
C27_Witness ==
    /\ BatchEnded
    /\ due = << >>
    /\ outcome = "committed"
    /\ db.crawl_job # {}
    /\ \A j \in db.crawl_job : ~ShouldProcess(j, now)
    /\ db = prevDb

\* The rows of a store that do not belong to the jobs D: the Listings with
\* another name, their Records, and the other jobs.
RowsOutside(store, D) ==
    LET mine == {l \in store.support_listing : \E d \in D : l.name = ListingName(d)}
    IN  [support_listing |-> store.support_listing \ mine,
         support |-> {r \in store.support : \A l \in mine : r.support_listing_id # l.id},
         crawl_job |-> {j \in store.crawl_job : j.domain \notin D}]

\* C28: a merge writes only the Listing named "Crawl Job: " + domain of its
\* job, the Records of that Listing and the job's last_crawled_at. While the
\* merges of a run are made, and when they are committed, every other
\* Listing, every Record of another Listing and every other job is the row it
\* was when the run began, and a merged job differs from what it was in
\* last_crawled_at only. The committed result is determined by the entries of
\* each job, whatever the order in which the jobs were merged.
C28_MergeFrame ==
    /\ pc \in {"merge", "commit"} =>
          LET touched == merged \cup (IF pc = "merge" THEN {CurrentJob} ELSE {})
          IN  /\ RowsOutside(sess, touched) = RowsOutside(prevDb, touched)
              /\ \A d \in touched :
                    [JobRow(sess.crawl_job, d) EXCEPT !.last_crawled_at = Never]
                        = [JobRow(prevDb.crawl_job, d) EXCEPT !.last_crawled_at = Never]
    /\ Committed =>
          /\ RowsOutside(db, merged) = RowsOutside(prevDb, merged)
          /\ merged = Range(due)
          /\ \A d \in merged :
                /\ ListingState(db, d) =
                      [uris |-> {d}, records |-> Range(result[d]), rows |-> Len(result[d])]
                /\ [JobRow(db.crawl_job, d) EXCEPT !.last_crawled_at = Never]
                      = [JobRow(prevDb.crawl_job, d) EXCEPT !.last_crawled_at = Never]
                /\ LastCrawled(db, d) \in 0 .. now

\* Two jobs were merged, b.org before a.org, with entries that differ; the
\* manually ingested Listing and its Record are the rows they were.
C28_Witness ==
    /\ Committed
    /\ due = << "b.org", "a.org" >>
    /\ merged = Domains
    /\ result["a.org"] # << >>
    /\ result["b.org"] # << >>
    /\ result["a.org"] # result["b.org"]
    /\ RecordRows(db, ManualListingName) = RecordRows(prevDb, ManualListingName)
    /\ RecordRows(db, ManualListingName) # {}

\* C29: upsert_crawl_job on a domain that has a job changes its prompt_name
\* and crawling_interval only: id, domain and last_crawled_at are as before.
\* The job is then due exactly when it was never crawled or the new interval
\* has elapsed since the last_crawled_at it had, and a batch run begun after
\* the upsert selects it exactly then.
C29_UpsertKeepsHistory ==
    (adm.cmd.op = "upsert" /\ adm.cmd.ret = "job" /\ JobsOf(adm.before, adm.cmd.arg) # {})
        => \A b \in JobsOf(adm.before, adm.cmd.arg) :
              /\ JobsOf(adm.after, adm.cmd.arg) =
                    {[id |-> b.id, domain |-> b.domain, prompt_name |-> adm.cmd.prompt,
                      crawling_interval |-> adm.cmd.interval,
                      last_crawled_at |-> b.last_crawled_at]}
              /\ (pc # "idle" /\ prevDb = adm.after) =>
                    (adm.cmd.arg \in Range(due)
                        <=> \/ b.last_crawled_at = Never
                            \/ now - b.last_crawled_at >= adm.cmd.interval * TicksPerHour)

\* A job crawled at time 0 with an interval of two hours was registered again
\* with an interval of one hour, more than one hour and less than two hours
\* after its crawl; the batch run that followed selected it.
C29_Witness ==
    /\ pc # "idle"
    /\ prevDb = adm.after
    /\ adm.cmd.op = "upsert"
    /\ adm.cmd.ret = "job"
    /\ adm.cmd.interval = 1
    /\ \E b \in JobsOf(adm.before, adm.cmd.arg) :
          /\ b.last_crawled_at = 0
          /\ b.crawling_interval = 2
          /\ now >= TicksPerHour
          /\ now < 2 * TicksPerHour
    /\ adm.cmd.arg \in Range(due)
    /\ LastCrawled(db, adm.cmd.arg) = 0

\* A batch run begins: process_all_jobs selects the due jobs.
BeginStep == pc = "idle" /\ pc' # "idle"

\* The batch run that ended last merged every job it had selected, at least
\* one, and committed; no time has passed since.
JustFullySuccessful ==
    /\ outcome = "committed"
    /\ due # << >>
    /\ merged = Range(due)
    /\ \A d \in merged : LastCrawled(db, d) = now

\* A job that has a last_crawled_at is selected exactly when its interval
\* has elapsed since.
SelectedWhenElapsed ==
    \A j \in db.crawl_job :
        j.last_crawled_at # Never =>
            (j.domain \in Range(due')
                <=> now - j.last_crawled_at >= j.crawling_interval * TicksPerHour)

====
